---- MODULE Spec2Model ----
(***************************************************************************)
(* The API Gateway Agent (agent/api-gateway-agent.py): an in-memory task   *)
(* ledger (task_store), process-wide counters (task_metrics), a router     *)
(* that sends a task to one of four handler families, and a background     *)
(* executor (process_task) that runs once per accepted submission on the   *)
(* single asyncio event loop.                                              *)
(*                                                                         *)
(* A step of the model is one stretch of code that the event loop runs     *)
(* between two observable points: a whole request handler, or a part of    *)
(* process_task delimited by its status assignments and by the awaits on   *)
(* outbound HTTP calls.  The variable `running` names the coroutine that   *)
(* holds the loop inside a stretch without suspension, so that no other    *)
(* step interleaves where the code cannot be interleaved.                  *)
(***************************************************************************)
EXTENDS Integers, Sequences, FiniteSets, TLC

VARIABLES
    task_store,     \* ledger: task id -> record            (line 82)
    task_metrics,   \* total / completed / failed / by_type (lines 83-88)
    frames,         \* task id -> the process_task coroutine scheduled for it
    running,        \* the coroutine holding the event loop: {} or {id}
    response,       \* HTTP response produced by the latest step
    now,            \* the wall clock read by datetime.now()
    status_req,     \* the get_gateway_status call in progress, or None
    executions,     \* task id -> number of times process_task was entered
    rate_keys,      \* gateway_v2: Redis keys rate_limit:<host> -> value, expiry
    rate_calls,     \* gateway_v2: host -> the rate_limit call in progress
    rate_result,    \* gateway_v2: how the latest rate_limit call ended
    pihole_cache,   \* PiholeService: Redis keys pihole:<endpoint> -> value, expiry
    pihole_calls,   \* PiholeService: caller -> the API request it awaits
    pihole_result,  \* PiholeService: what the latest call returned
    test_logs,      \* TestLogger: the rows of table test_logs
    test_results,   \* TestLogger: table test_results, by (test_type, test_name)
    log_calls       \* TestLogger: the test_data of the log_test calls so far

\* State of the programs other than the gateway agent.
limiter == <<rate_keys, rate_calls, rate_result>>
pihole == <<pihole_cache, pihole_calls, pihole_result>>
logger == <<test_logs, test_results, log_calls>>
others == <<limiter, pihole, logger>>

\* State of the gateway agent apart from the clock.
agent == <<task_store, task_metrics, frames, running, response,
           status_req, executions>>

vars == <<task_store, task_metrics, frames, running, response, now,
          status_req, executions, rate_keys, rate_calls, rate_result,
          pihole_cache, pihole_calls, pihole_result,
          test_logs, test_results, log_calls>>

---------------------------------------------------------------------------
(* Bounds *)

\* Number of task identifiers available to uuid4 in a run.
MaxTasks == 2

Ids == 1..MaxTasks

\* Last instant of the wall clock in a run.
MaxClock == 2

\* `running` when no coroutine is inside a non-suspending stretch.
Idle == {}

---------------------------------------------------------------------------
(* Values *)

\* Python's None.
None == [none |-> TRUE]

\* Python's {} (a dict with no keys).
EmptyDict == [k \in {} |-> None]

\* dict.get(key, default)
Get(d, k, default) == IF k \in DOMAIN d THEN d[k] ELSE default

\* Members of the TaskType enumeration, by value.
TaskType ==
    { "dns_update", "cache_purge", "ssl_check", "firewall_rule",
      "rate_limit", "worker_deploy", "analytics_query", "health_check",
      "system_metric", "backup", "security_scan" }

\* Members of the Priority enumeration, by value.
Priority == { "critical", "high", "medium", "low" }

\* TaskRequest.retry_count default.
DefaultRetryCount == 3

\* TaskRequest.timeout default, in seconds.
DefaultTimeout == 300

\* HTTP status codes used by the gateway.
HTTP_OK == 200
HTTP_BAD_REQUEST == 400
HTTP_NOT_FOUND == 404
HTTP_UNPROCESSABLE == 422

---------------------------------------------------------------------------
(* Request bodies a client may POST *)

DnsPayloadFull ==
    [record |-> "test.example.com", type |-> "A", content |-> "10.0.0.1"]

DnsPayloadNoType == [record |-> "www.example.com", content |-> "10.0.0.2"]

CachePayload == [urls |-> <<"https://example.com/index.html">>]

PayloadFor(t) ==
    IF t = "dns_update" THEN DnsPayloadNoType
    ELSE IF t = "cache_purge" THEN CachePayload
    ELSE EmptyDict

\* Raw JSON bodies: one per declared task type, a dns_update with an
\* explicit priority and record type, and a body whose type is outside the
\* enumeration.
Bodies ==
    { [type |-> t, data |-> PayloadFor(t)] : t \in TaskType }
    \cup { [type |-> "dns_update", priority |-> "high", data |-> DnsPayloadFull],
           [type |-> "bogus_type", data |-> EmptyDict] }

\* Bodies that give the advisory fields: a health check with a timeout of
\* one second and no retries, and a rate_limit task (which fails) with
\* retries and a schedule asked for.
AdvisoryBodies ==
    { [ type |-> "health_check", data |-> EmptyDict,
        retry_count |-> 0, timeout |-> 1 ],
      [ type |-> "rate_limit", data |-> EmptyDict,
        schedule |-> "*/5 * * * *", retry_count |-> 2 ] }

---------------------------------------------------------------------------
(* TaskRequest: parsing and validation of a body (pydantic model) *)

\* ValidTaskRequest with `type` declared as a plain string.
ValidTaskRequest_AnyType(body) ==
    Get(body, "priority", "medium") \in Priority

\* The body satisfies the declared field types of TaskRequest.
ValidTaskRequest(body) ==
    /\ body.type \in TaskType
    /\ Get(body, "priority", "medium") \in Priority

\* The parsed model as task.dict() renders it, defaults filled in.
TaskRequest(body) ==
    [ type        |-> body.type,
      priority    |-> Get(body, "priority", "medium"),
      data        |-> body.data,
      schedule    |-> Get(body, "schedule", None),
      retry_count |-> Get(body, "retry_count", DefaultRetryCount),
      timeout     |-> Get(body, "timeout", DefaultTimeout) ]

---------------------------------------------------------------------------
(* Router and handlers *)

\* RouteFamily with HEALTH_CHECK listed among the worker types.
RouteFamily_HealthToWorker(t) ==
    IF t \in {"dns_update", "cache_purge", "ssl_check", "firewall_rule"}
        THEN "cloudflare"
    ELSE IF t \in {"system_metric"}
        THEN "pi_executor"
    ELSE IF t \in {"worker_deploy", "analytics_query", "health_check"}
        THEN "worker"
    ELSE IF t \in {"security_scan", "backup"}
        THEN "hybrid"
    ELSE "unknown"

\* The branch of route_task's conditional chain that a task type takes.
RouteFamily(t) ==
    IF t \in {"dns_update", "cache_purge", "ssl_check", "firewall_rule"}
        THEN "cloudflare"
    ELSE IF t \in {"system_metric", "health_check"}
        THEN "pi_executor"
    ELSE IF t \in {"worker_deploy", "analytics_query"}
        THEN "worker"
    ELSE IF t \in {"security_scan", "backup"}
        THEN "hybrid"
    ELSE "unknown"

\* HTTPException(status_code=400, detail=f"Unknown task type: {task.type}")
UnknownTaskType(t) ==
    [status_code |-> HTTP_BAD_REQUEST, detail |-> <<"Unknown task type", t>>]

\* execute_cloudflare_task: the simulated Cloudflare call, at clock t.
\* execute_cloudflare_task that answers with the content where the record
\* belongs.
execute_cloudflare_task_ContentAsRecord(task, t) ==
    [ service   |-> "cloudflare",
      task_type |-> task.type,
      status    |-> "success",
      data      |->
        IF task.type = "dns_update" THEN
            [ record     |-> Get(task.data, "content", None),
              type       |-> Get(task.data, "type", "A"),
              content    |-> Get(task.data, "content", None),
              updated_at |-> t ]
        ELSE IF task.type = "cache_purge" THEN
            [ purged_urls      |-> Get(task.data, "urls", <<>>),
              purge_everything |-> Get(task.data, "purge_everything", FALSE),
              purged_at        |-> t ]
        ELSE EmptyDict ]

execute_cloudflare_task(task, t) ==
    [ service   |-> "cloudflare",
      task_type |-> task.type,
      status    |-> "success",
      data      |->
        IF task.type = "dns_update" THEN
            [ record     |-> Get(task.data, "record", None),
              type       |-> Get(task.data, "type", "A"),
              content    |-> Get(task.data, "content", None),
              updated_at |-> t ]
        ELSE IF task.type = "cache_purge" THEN
            [ purged_urls      |-> Get(task.data, "urls", <<>>),
              purge_everything |-> Get(task.data, "purge_everything", FALSE),
              purged_at        |-> t ]
        ELSE EmptyDict ]

\* Outcomes of an outbound HTTP call: a JSON body came back, or the call
\* raised (connection refused, timeout, undecodable body).
Outcomes == {"ok", "raised"}

\* str(e) of the exception an unreachable service raises.
ConnectError == "All connection attempts failed"

\* The outbound call execute_pi_task issues for a task type.
PiCall(t) ==
    [ service |-> "pi_executor", method |-> "GET",
      path |-> IF t = "health_check" THEN "/health" ELSE "/metrics" ]

\* The outbound call execute_worker_task issues.
WorkerCall(task) ==
    [ service |-> "worker", method |-> "POST", path |-> "/tasks",
      json |-> [type |-> task.type, priority |-> task.priority,
                data |-> task.data] ]

\* JSON body a reachable service answers a call with.
ResponseJson(call) ==
    IF call.service = "pi_executor" THEN
        IF call.path = "/health" THEN [status |-> "healthy"]
        ELSE [status |-> "success", data |-> [network |-> "up"]]
    ELSE [success |-> TRUE, task |-> call.json.type]

\* What execute_pi_task / execute_worker_task return once the call ended:
\* the body, or an error dict when the call raised.
CallResult(call, outcome) ==
    IF outcome = "ok" THEN ResponseJson(call)
    ELSE [status |-> "error", message |-> ConnectError]

\* HybridScanResult that gives up when the Pi call failed.
HybridScanResult_StopsOnError(task, pi_result, t) ==
    IF pi_result = [status |-> "error", message |-> ConnectError]
        THEN [ system |-> pi_result ]
        ELSE [ system     |-> pi_result,
               cloudflare |-> execute_cloudflare_task(
                        [ type |-> "firewall_rule", priority |-> task.priority,
                          data |-> [action |-> "list"], schedule |-> None,
                          retry_count |-> DefaultRetryCount,
                          timeout |-> DefaultTimeout ], t) ]

\* execute_hybrid_task for SECURITY_SCAN, given the result of its Pi call
\* and the clock at which the Cloudflare part runs.
HybridScanResult(task, pi_result, t) ==
    [ system     |-> pi_result,
      cloudflare |-> execute_cloudflare_task(
                        [ type |-> "firewall_rule", priority |-> task.priority,
                          data |-> [action |-> "list"], schedule |-> None,
                          retry_count |-> DefaultRetryCount,
                          timeout |-> DefaultTimeout ], t) ]

---------------------------------------------------------------------------
(* Ledger and metrics updates *)

\* NewRecord with the record stored as already picked up.
NewRecord_Processing(id, task, t) ==
    [ id         |-> id,
      request    |-> task,
      status     |-> "processing",
      created_at |-> t,
      updated_at |-> t,
      result     |-> None ]

\* The record create_task stores for a new task.
NewRecord(id, task, t) ==
    [ id         |-> id,
      request    |-> task,
      status     |-> "pending",
      created_at |-> t,
      updated_at |-> t,
      result     |-> None ]

\* MetricsOnCreate that overwrites the per-type counter instead of adding.
MetricsOnCreate_ResetsType(m, t) ==
    [ m EXCEPT !.total = @ + 1,
               !.by_type = IF t \in DOMAIN @
                              THEN [@ EXCEPT ![t] = 1]
                              ELSE @ @@ (t :> 1) ]

\* task_metrics after create_task's update for a task of type t.
MetricsOnCreate(m, t) ==
    [ m EXCEPT !.total = @ + 1,
               !.by_type = IF t \in DOMAIN @
                              THEN [@ EXCEPT ![t] = @ + 1]
                              ELSE @ @@ (t :> 1) ]

\* MarkProcessing that writes to every record of the ledger.
MarkProcessing_AllRecords(store, id, t) ==
    [ j \in DOMAIN store |->
        [ store[j] EXCEPT !.status = "processing", !.updated_at = t ] ]

\* process_task's first two assignments.
MarkProcessing(store, id, t) ==
    [ store EXCEPT ![id].status = "processing", ![id].updated_at = t ]

\* MarkCompleted without the status assignment.
MarkCompleted_KeepsStatus(store, id, result, t) ==
    [ store EXCEPT ![id].result = result, ![id].updated_at = t ]

\* MarkCompleted without the updated_at assignment.
MarkCompleted_KeepsTimestamp(store, id, result, t) ==
    [ store EXCEPT ![id].status = "completed", ![id].result = result ]

\* process_task's assignments after route_task returned `result`.
MarkCompleted(store, id, result, t) ==
    [ store EXCEPT ![id].status = "completed",
                   ![id].result = result,
                   ![id].updated_at = t ]

\* MarkFailed that stores the message under "result".
MarkFailed_IntoResult(store, id, e, t) ==
    [ store EXCEPT ![id].status = "failed", ![id].result = e,
                   ![id].updated_at = t ]

\* MarkFailed that fails every record being processed.
MarkFailed_AllProcessing(store, id, e, t) ==
    [ j \in DOMAIN store |->
        IF store[j].status = "processing"
            THEN [ store[j] EXCEPT !.status = "failed", !.updated_at = t ]
                 @@ ("error" :> e)
            ELSE store[j] ]

\* process_task's assignments in its except branch (which adds the key
\* "error" to the record).
MarkFailed(store, id, e, t) ==
    [ store EXCEPT ![id] =
        [ @ EXCEPT !.status = "failed", !.updated_at = t ] @@ ("error" :> e) ]

\* MetricsOnCompleted that leaves the counter alone.
MetricsOnCompleted_Skipped(m) == m

MetricsOnCompleted(m) == [ m EXCEPT !.completed = @ + 1 ]

\* MetricsOnFailed that falls through to the completed counter.
MetricsOnFailed_AlsoCompleted(m) ==
    [ m EXCEPT !.failed = @ + 1, !.completed = @ + 1 ]

MetricsOnFailed(m) == [ m EXCEPT !.failed = @ + 1 ]

---------------------------------------------------------------------------
(* The process_task coroutine *)

\* The coroutine background_tasks.add_task(process_task, task_id, task)
\* schedules: its arguments and its position.
\*   pc = "scheduled"  not started
\*        "awaiting"   suspended in a handler on the outbound call `call`
\*        "returned"   route_task returned `ret`
\*        "raised"     route_task raised `exc`
\*        "done"       process_task returned
\*   handler: the execute_* function route_task has called, if any.
NewFrame(task) ==
    [ pc |-> "scheduled", task |-> task, handler |-> "none", call |-> None,
      ret |-> None, exc |-> None ]

\* route_task(task) run at clock t up to its first suspension, return or
\* raise, as the change it makes to the calling frame.
route_task(task, t) ==
    LET family == RouteFamily(task.type) IN
    IF family = "cloudflare" THEN
        [ handler |-> "execute_cloudflare_task", pc |-> "returned",
          ret |-> execute_cloudflare_task(task, t), call |-> None,
          exc |-> None ]
    ELSE IF family = "pi_executor" THEN
        [ handler |-> "execute_pi_task", pc |-> "awaiting",
          call |-> PiCall(task.type), ret |-> None, exc |-> None ]
    ELSE IF family = "worker" THEN
        [ handler |-> "execute_worker_task", pc |-> "awaiting",
          call |-> WorkerCall(task), ret |-> None, exc |-> None ]
    ELSE IF family = "hybrid" THEN
        IF task.type = "security_scan" THEN
            [ handler |-> "execute_hybrid_task", pc |-> "awaiting",
              call |-> PiCall("system_metric"), ret |-> None, exc |-> None ]
        ELSE
            [ handler |-> "execute_hybrid_task", pc |-> "returned",
              ret |-> EmptyDict, call |-> None, exc |-> None ]
    ELSE
        [ handler |-> "none", pc |-> "raised",
          exc |-> UnknownTaskType(task.type), call |-> None, ret |-> None ]

\* The value the suspended handler returns once its outbound call ended
\* with `outcome`.
HandlerReturn(frame, outcome, t) ==
    IF RouteFamily(frame.task.type) = "hybrid"
        THEN HybridScanResult(frame.task, CallResult(frame.call, outcome), t)
        ELSE CallResult(frame.call, outcome)

---------------------------------------------------------------------------
(* HTTP responses *)

NoResponse == [endpoint |-> "none", status_code |-> 0, body |-> None]

\* TaskResponse returned by create_task.
TaskResponse(id, task, t) ==
    [ endpoint    |-> "create_task",
      status_code |-> HTTP_OK,
      body        |-> [ task_id    |-> id,
                        status     |-> "pending",
                        message    |-> <<"Task queued for processing", task.type>>,
                        created_at |-> t,
                        estimated_completion |-> t + task.timeout ] ]

\* The response to a body that TaskRequest does not validate.
ValidationErrorResponse ==
    [ endpoint |-> "create_task", status_code |-> HTTP_UNPROCESSABLE,
      body |-> [detail |-> "value is not a valid enumeration member"] ]

\* TaskLookup that tests the record's result instead of the key.
TaskLookup_MissesUnfinished(store, id) ==
    IF id \notin DOMAIN store \/ store[id].result = None
        THEN [ endpoint |-> "get_task", status_code |-> HTTP_NOT_FOUND,
               body |-> [detail |-> "Task not found"] ]
        ELSE [ endpoint |-> "get_task", status_code |-> HTTP_OK,
               body |-> store[id] ]

\* get_task
TaskLookup(store, id) ==
    IF id \notin DOMAIN store
        THEN [ endpoint |-> "get_task", status_code |-> HTTP_NOT_FOUND,
               body |-> [detail |-> "Task not found"] ]
        ELSE [ endpoint |-> "get_task", status_code |-> HTTP_OK,
               body |-> store[id] ]

\* Records of the ledger that status() and the metrics query call active.
ActiveIds(store) ==
    { id \in DOMAIN store : store[id].status \in {"pending", "processing"} }

\* Outcomes of a liveness probe: the service answered 200, it answered
\* another status, or the call raised (network error, timeout).
ProbeOutcomes == {"status_200", "status_other", "raised"}

\* ProbeEntry that looks only at whether the call raised.
ProbeEntry_IgnoresStatus(outcome) ==
    IF outcome = "raised" THEN "offline" ELSE "online"

\* The services entry get_gateway_status writes for a probe.
ProbeEntry(outcome) ==
    IF outcome = "status_200" THEN "online" ELSE "offline"

\* GatewayStatus that counts pending records only.
GatewayStatus_PendingOnly(store, m, services, t) ==
    [ endpoint    |-> "get_gateway_status",
      status_code |-> HTTP_OK,
      body        |-> [ status          |-> "operational",
                        uptime          |-> t,
                        active_tasks    |->
                            Cardinality({ id \in DOMAIN store :
                                            store[id].status = "pending" }),
                        completed_tasks |-> m.completed,
                        failed_tasks    |-> m.failed,
                        services        |-> services,
                        last_health_check |-> t ] ]

\* GatewayStatus returned by get_gateway_status.
GatewayStatus(store, m, services, t) ==
    [ endpoint    |-> "get_gateway_status",
      status_code |-> HTTP_OK,
      body        |-> [ status          |-> "operational",
                        uptime          |-> t,
                        active_tasks    |-> Cardinality(ActiveIds(store)),
                        completed_tasks |-> m.completed,
                        failed_tasks    |-> m.failed,
                        services        |-> services,
                        last_health_check |-> t ] ]

\* The body of get_metrics' response (active_tasks as a set).
MetricsBody(store, m) ==
    [ task_metrics |-> m,
      task_types   |-> TaskType,
      priorities   |-> Priority,
      active_tasks |->
          { [ id |-> id, type |-> store[id].request.type,
              status |-> store[id].status ] : id \in ActiveIds(store) } ]

get_task_description ==
    [ dns_update      |-> "Update DNS records in Cloudflare",
      cache_purge     |-> "Purge CDN cache",
      ssl_check       |-> "Verify SSL certificate status",
      firewall_rule   |-> "Manage firewall rules",
      rate_limit      |-> "Configure rate limiting",
      worker_deploy   |-> "Deploy Cloudflare Workers",
      analytics_query |-> "Query analytics data",
      health_check    |-> "System health check",
      system_metric   |-> "Collect system metrics",
      backup          |-> "Perform backup operations",
      security_scan   |-> "Run security scan" ]

get_task_service ==
    [ dns_update      |-> "cloudflare",
      cache_purge     |-> "cloudflare",
      ssl_check       |-> "cloudflare",
      firewall_rule   |-> "cloudflare",
      rate_limit      |-> "cloudflare",
      worker_deploy   |-> "worker",
      analytics_query |-> "worker",
      health_check    |-> "pi_executor",
      system_metric   |-> "pi_executor",
      backup          |-> "hybrid",
      security_scan   |-> "hybrid" ]

\* The body of get_capabilities' response (task_types as a set).
CapabilitiesBody ==
    [ task_types |->
          { [ type |-> t, description |-> get_task_description[t],
              service |-> get_task_service[t] ] : t \in TaskType },
      priorities |-> Priority,
      services   |-> <<"cloudflare", "pi_executor", "worker", "hybrid">>,
      features   |-> << "Intelligent task routing",
                        "Priority-based execution",
                        "Retry mechanism",
                        "Scheduled tasks",
                        "Real-time monitoring",
                        "Multi-service orchestration" >> ]

---------------------------------------------------------------------------
(* Initial state and steps *)

\* uuid4 that may return an identifier already handed out.
uuid4_Any(store) == Ids

\* The identifiers uuid.uuid4() can return to create_task: a random 128-bit
\* value, taken never to repeat one already in the ledger.
uuid4(store) == Ids \ DOMAIN store

Init ==
    /\ task_store = EmptyDict
    /\ task_metrics = [total |-> 0, completed |-> 0, failed |-> 0,
                       by_type |-> EmptyDict]
    /\ frames = EmptyDict
    /\ running = Idle
    /\ response = NoResponse
    /\ now = 0
    /\ status_req = None
    /\ executions = [id \in Ids |-> 0]
    /\ rate_keys = EmptyDict
    /\ rate_calls = EmptyDict
    /\ rate_result = None
    /\ pihole_cache = EmptyDict
    /\ pihole_calls = EmptyDict
    /\ pihole_result = None
    /\ test_logs = {}
    /\ test_results = EmptyDict
    /\ log_calls = <<>>

\* POST /api/v1/tasks with a body that validates: create_task.
create_task(body) ==
    /\ running = Idle
    /\ ValidTaskRequest(body)
    /\ \E id \in uuid4(task_store) :
         LET task == TaskRequest(body) IN
         /\ task_store' = (id :> NewRecord(id, task, now)) @@ task_store
         /\ task_metrics' = MetricsOnCreate(task_metrics, task.type)
         /\ frames' = (id :> NewFrame(task)) @@ frames
         /\ response' = TaskResponse(id, task, now)
    /\ UNCHANGED <<running, now, status_req, executions>>
    /\ UNCHANGED others

\* POST /api/v1/tasks with a body that does not validate: the handler is
\* not entered.
reject_task(body) ==
    /\ running = Idle
    /\ ~ValidTaskRequest(body)
    /\ response' = ValidationErrorResponse
    /\ UNCHANGED <<task_store, task_metrics, frames, running, now,
                   status_req, executions>>
    /\ UNCHANGED others

\* process_task from its start to route_task's first suspension, return or
\* raise.
process_task_start(id) ==
    /\ running = Idle
    /\ id \in DOMAIN frames
    /\ frames[id].pc = "scheduled"
    /\ task_store' = MarkProcessing(task_store, id, now)
    /\ LET r == route_task(frames[id].task, now) IN
         /\ frames' = [frames EXCEPT ![id].pc = r.pc,
                                     ![id].handler = r.handler,
                                     ![id].call = r.call,
                                     ![id].ret = r.ret, ![id].exc = r.exc]
         /\ running' = IF r.pc = "awaiting" THEN Idle ELSE {id}
    /\ executions' = [executions EXCEPT ![id] = @ + 1]
    /\ response' = NoResponse
    /\ UNCHANGED <<task_metrics, now, status_req>>
    /\ UNCHANGED others

\* handler_resume with the calls answered in the order of submission.
handler_resume_Fifo(id, outcome) ==
    /\ running = Idle
    /\ id \in DOMAIN frames
    /\ frames[id].pc = "awaiting"
    /\ \A j \in DOMAIN frames :
          task_store[j].created_at < task_store[id].created_at
              => frames[j].pc = "done"
    /\ frames' = [frames EXCEPT ![id].pc = "returned", ![id].call = None,
                                ![id].ret = HandlerReturn(frames[id], outcome, now)]
    /\ running' = {id}
    /\ response' = NoResponse
    /\ UNCHANGED <<task_store, task_metrics, now, status_req, executions>>
    /\ UNCHANGED others

\* The outbound call of a suspended handler ends; the handler resumes and
\* returns to process_task.
handler_resume(id, outcome) ==
    /\ running = Idle
    /\ id \in DOMAIN frames
    /\ frames[id].pc = "awaiting"
    /\ frames' = [frames EXCEPT ![id].pc = "returned", ![id].call = None,
                                ![id].ret = HandlerReturn(frames[id], outcome, now)]
    /\ running' = {id}
    /\ response' = NoResponse
    /\ UNCHANGED <<task_store, task_metrics, now, status_req, executions>>
    /\ UNCHANGED others

\* process_task after route_task returned.
process_task_complete(id) ==
    /\ running = {id}
    /\ frames[id].pc = "returned"
    /\ task_store' = MarkCompleted(task_store, id, frames[id].ret, now)
    /\ task_metrics' = MetricsOnCompleted(task_metrics)
    /\ frames' = [frames EXCEPT ![id].pc = "done"]
    /\ running' = Idle
    /\ response' = NoResponse
    /\ UNCHANGED <<now, status_req, executions>>
    /\ UNCHANGED others

\* process_task's except branch with the task put back for another run.
process_task_fail_Retry(id) ==
    /\ running = {id}
    /\ frames[id].pc = "raised"
    /\ task_store' = MarkFailed(task_store, id, frames[id].exc, now)
    /\ task_metrics' = MetricsOnFailed(task_metrics)
    /\ frames' = [frames EXCEPT ![id].pc = "scheduled"]
    /\ running' = Idle
    /\ response' = NoResponse
    /\ UNCHANGED <<now, status_req, executions>>
    /\ UNCHANGED others

\* process_task's except branch with a retry loop that honours retry_count.
process_task_fail_RetryCounted(id) ==
    /\ running = {id}
    /\ frames[id].pc = "raised"
    /\ task_store' = MarkFailed(task_store, id, frames[id].exc, now)
    /\ task_metrics' = MetricsOnFailed(task_metrics)
    /\ frames' = [frames EXCEPT ![id].pc =
                     IF executions[id] <= frames[id].task.retry_count
                         THEN "scheduled" ELSE "done"]
    /\ running' = Idle
    /\ response' = NoResponse
    /\ UNCHANGED <<now, status_req, executions>>
    /\ UNCHANGED others

\* process_task's except branch.
process_task_fail(id) ==
    /\ running = {id}
    /\ frames[id].pc = "raised"
    /\ task_store' = MarkFailed(task_store, id, frames[id].exc, now)
    /\ task_metrics' = MetricsOnFailed(task_metrics)
    /\ frames' = [frames EXCEPT ![id].pc = "done"]
    /\ running' = Idle
    /\ response' = NoResponse
    /\ UNCHANGED <<now, status_req, executions>>
    /\ UNCHANGED others

\* GET /api/v1/tasks/{task_id}
get_task(id) ==
    /\ running = Idle
    /\ response' = TaskLookup(task_store, id)
    /\ UNCHANGED <<task_store, task_metrics, frames, running, now,
                   status_req, executions>>
    /\ UNCHANGED others

\* The coroutine of task id takes its next step.
process_task(id) ==
    \/ process_task_start(id)
    \/ \E outcome \in Outcomes : handler_resume(id, outcome)
    \/ process_task_complete(id)
    \/ process_task_fail(id)

\* A step of the gateway when clients post bodies drawn from B.
NextOver(B) ==
    \/ \E body \in B : create_task(body)
    \/ \E body \in B : reject_task(body)
    \/ \E id \in Ids : process_task(id)
    \/ \E id \in Ids : get_task(id)

Next == NextOver(Bodies)

Spec == Init /\ [][Next]_vars

\* The wall clock advances.  It does so in ClockSpec only: Spec and FairSpec
\* observe the gateway within one instant of the clock.
\* The wall clock advances and tasks past their timeout are failed.
Tick_Expires ==
    /\ now < MaxClock
    /\ now' = now + 1
    /\ task_store' =
          [ id \in DOMAIN task_store |->
              IF /\ task_store[id].status = "processing"
                 /\ now' > task_store[id].created_at
                              + task_store[id].request.timeout
                  THEN [ task_store[id] EXCEPT !.status = "failed",
                                               !.updated_at = now' ]
                  ELSE task_store[id] ]
    /\ UNCHANGED <<task_metrics, frames, running, response,
                   status_req, executions>>
    /\ UNCHANGED others

Tick ==
    /\ now < MaxClock
    /\ now' = now + 1
    /\ UNCHANGED <<task_store, task_metrics, frames, running, response,
                   status_req, executions>>
    /\ UNCHANGED others

\* Bodies for the runs in which the clock advances: a task that completes
\* without suspending, one that suspends on an outbound call for longer
\* than its timeout, one that fails with retries asked for, and a body
\* that does not validate.
ClockBodies ==
    { b \in Bodies :
        \/ b.type = "dns_update" /\ "priority" \notin DOMAIN b
        \/ b.type = "bogus_type" }
    \cup AdvisoryBodies

NextClock == NextOver(ClockBodies) \/ Tick

ClockSpec == Init /\ [][NextClock]_vars

\* Bodies that between them take every branch of route_task and of the
\* handlers (one task type per branch, dns_update with and without a record
\* type), and one that does not validate.
BranchBodies ==
    { b \in Bodies :
        b.type \in { "dns_update", "ssl_check", "rate_limit", "health_check",
                     "worker_deploy", "security_scan", "backup", "bogus_type" } }

NextBranches == NextOver(BranchBodies)

\* The executor is run and outbound calls end: a step of a scheduled
\* process_task that stays enabled is eventually taken.
FairSpec ==
    /\ Init
    /\ [][NextBranches]_vars
    /\ \A id \in Ids : WF_vars(process_task(id))

---------------------------------------------------------------------------
(* The query endpoints *)

\* GET /api/v1/status up to its first await: the probe of the worker is
\* sent.  One status call is in progress at a time.
get_gateway_status_start ==
    /\ running = Idle
    /\ status_req = None
    /\ status_req' = [pc |-> "probe_worker", services |-> EmptyDict]
    /\ response' = NoResponse
    /\ UNCHANGED <<task_store, task_metrics, frames, running, now, executions>>
    /\ UNCHANGED others

\* The probe of the worker ends; the probe of the Pi executor is sent.
status_probe_worker(outcome) ==
    /\ running = Idle
    /\ status_req # None
    /\ status_req.pc = "probe_worker"
    /\ status_req' =
          [ pc |-> "probe_pi",
            services |-> ("worker" :> ProbeEntry(outcome))
                            @@ status_req.services ]
    /\ response' = NoResponse
    /\ UNCHANGED <<task_store, task_metrics, frames, running, now, executions>>
    /\ UNCHANGED others

\* The probe of the Pi executor ends; the handler counts the active tasks
\* and returns.
status_probe_pi(outcome) ==
    /\ running = Idle
    /\ status_req # None
    /\ status_req.pc = "probe_pi"
    /\ response' =
          GatewayStatus(task_store, task_metrics,
                        ("pi_executor" :> ProbeEntry(outcome))
                            @@ status_req.services,
                        now)
    /\ status_req' = None
    /\ UNCHANGED <<task_store, task_metrics, frames, running, now, executions>>
    /\ UNCHANGED others

\* GET /api/v1/metrics that counts itself in the total.
get_metrics_Counted ==
    /\ running = Idle
    /\ task_metrics.total < MaxTasks
    /\ task_metrics' = [task_metrics EXCEPT !.total = @ + 1]
    /\ response' = [ endpoint |-> "get_metrics", status_code |-> HTTP_OK,
                     body |-> MetricsBody(task_store, task_metrics') ]
    /\ UNCHANGED <<task_store, frames, running, now, status_req, executions>>
    /\ UNCHANGED others

\* GET /api/v1/metrics
get_metrics ==
    /\ running = Idle
    /\ response' = [ endpoint |-> "get_metrics", status_code |-> HTTP_OK,
                     body |-> MetricsBody(task_store, task_metrics) ]
    /\ UNCHANGED <<task_store, task_metrics, frames, running, now,
                   status_req, executions>>
    /\ UNCHANGED others

\* GET /api/v1/capabilities
get_capabilities ==
    /\ running = Idle
    /\ response' = [ endpoint |-> "get_capabilities", status_code |-> HTTP_OK,
                     body |-> CapabilitiesBody ]
    /\ UNCHANGED <<task_store, task_metrics, frames, running, now,
                   status_req, executions>>
    /\ UNCHANGED others

\* A step of the gateway with all its endpoints in use.
NextQuery ==
    \/ NextOver(BranchBodies)
    \/ get_gateway_status_start
    \/ \E outcome \in ProbeOutcomes : status_probe_worker(outcome)
    \/ \E outcome \in ProbeOutcomes : status_probe_pi(outcome)
    \/ get_metrics
    \/ get_capabilities

QuerySpec == Init /\ [][NextQuery]_vars

---------------------------------------------------------------------------
(* gateway_v2: rate_limit *)

\* Client hosts, and the limits and periods rate_limit is called with.
Hosts == {"192.168.2.10", "192.168.2.11"}
MaxCalls == 2
MaxPeriod == 2
MaxCount == 4

HTTP_TOO_MANY_REQUESTS == 429

\* The key is in Redis at time t: it was set and has not expired.
KeyLive(keys, k, t) ==
    /\ k \in DOMAIN keys
    /\ ("expire_at" \in DOMAIN keys[k] => t < keys[k].expire_at)

\* Redis INCR at time t: a missing or expired key counts from zero and
\* has no expiry (no expire_at field); a live key keeps its expiry.
Incr(keys, k, t) ==
    IF KeyLive(keys, k, t)
        THEN [keys EXCEPT ![k].value = @ + 1]
        ELSE (k :> [value |-> 1]) @@ keys

\* Redis EXPIRE at time t (no effect on a key that is gone).
Expire(keys, k, period, t) ==
    IF KeyLive(keys, k, t)
        THEN [keys EXCEPT ![k] =
                 [value |-> @.value, expire_at |-> t + period]]
        ELSE keys

\* What the body of rate_limit's try block raises once `current` is known.
RateLimitRaises(current, calls) ==
    IF current > calls
        THEN [ exception |-> "HTTPException",
               status_code |-> HTTP_TOO_MANY_REQUESTS,
               detail |-> "Rate limit exceeded" ]
        ELSE None

\* The classes `except Exception` catches: HTTPException derives from
\* Exception, as do the errors of the Redis client.
CaughtByExceptException == {"HTTPException", "RedisError"}

\* How rate_limit ends for its caller when its try block raised `raised`
\* (None: it did not raise): the except clause passes, and the function
\* returns None.
RateLimitEnds(raised) ==
    IF raised = None THEN [ended |-> "returned", raised |-> None]
    ELSE IF raised.exception \in CaughtByExceptException
        THEN [ended |-> "returned", raised |-> None]
        ELSE [ended |-> "raised", raised |-> raised]

\* rate_limit up to the return of INCR (redis_client is set: the lifespan
\* handler has connected).  The call of Redis either answers or raises.
rate_limit_incr(host, calls, period, outcome) ==
    /\ host \notin DOMAIN rate_calls
    /\ IF outcome = "ok"
         THEN /\ KeyLive(rate_keys, host, now)
                    => rate_keys[host].value < MaxCount
              /\ rate_keys' = Incr(rate_keys, host, now)
              /\ rate_calls' =
                    (host :> [ calls |-> calls, period |-> period,
                               current |-> rate_keys'[host].value ])
                        @@ rate_calls
              /\ rate_result' = None
         ELSE /\ rate_result' =
                    [ host |-> host, calls |-> calls ]
                        @@ RateLimitEnds([exception |-> "RedisError"])
              /\ UNCHANGED <<rate_keys, rate_calls>>
    /\ UNCHANGED <<agent, now, pihole, logger>>

\* rate_limit after INCR returned: EXPIRE for the first request of a
\* period, then the comparison with `calls`.
rate_limit_check(host) ==
    /\ host \in DOMAIN rate_calls
    /\ LET call == rate_calls[host] IN
         /\ rate_keys' =
               IF call.current = 1
                   THEN Expire(rate_keys, host, call.period, now)
                   ELSE rate_keys
         /\ rate_result' =
               [ host |-> host, calls |-> call.calls,
                 current |-> call.current ]
                   @@ RateLimitEnds(RateLimitRaises(call.current, call.calls))
    /\ rate_calls' = [h \in DOMAIN rate_calls \ {host} |-> rate_calls[h]]
    /\ UNCHANGED <<agent, now, pihole, logger>>

\* The clock of the v2 gateway advances.
RateTick ==
    /\ now < MaxClock
    /\ now' = now + 1
    /\ UNCHANGED <<agent, others>>

NextRate ==
    \/ \E host \in Hosts : \E calls \in 1..MaxCalls :
         \E period \in 1..MaxPeriod : \E outcome \in Outcomes :
            rate_limit_incr(host, calls, period, outcome)
    \/ \E host \in Hosts : rate_limit_check(host)
    \/ RateTick

RateSpec == Init /\ [][NextRate]_vars

---------------------------------------------------------------------------
(* PiholeService: _get_cached_or_fetch *)

cache_ttl == 5
MaxPiholeClock == 6

\* Concurrent callers of the service.
Callers == {"dashboard", "poller"}

\* The calls the public methods make: get_summary, and get_top_items with
\* its default count and with another.
PiholeRequests ==
    { [endpoint |-> "summary", params |-> [summaryRaw |-> ""]],
      [endpoint |-> "topItems",
       params |-> [topItems |-> 10, getQuerySources |-> 10]],
      [endpoint |-> "topItems",
       params |-> [topItems |-> 5, getQuerySources |-> 5]] }

get_cache_key(endpoint) == <<"pihole:", endpoint>>

\* The JSON the Pi-hole API answers a request with: it depends on the
\* parameters asked and on the statistics at the time of the request.
make_request(params, t) == [params |-> params, as_of |-> t]

\* json.dumps and json.loads on a decoded JSON document.
Dumps(data) == [json |-> data]
Loads(text) == text.json

\* Redis GET at time t: the value of a live key, None otherwise.
CacheGet(cache, k, t) ==
    IF k \in DOMAIN cache /\ t < cache[k].expire_at
        THEN cache[k].value ELSE None

\* Redis SETEX at time t.
CacheSetex(cache, k, ttl, value, t) ==
    (k :> [value |-> value, expire_at |-> t + ttl]) @@ cache

\* _get_cached_or_fetch up to its return on a hit, or up to the await of
\* the API request on a miss.
get_cached_or_fetch(caller, req) ==
    /\ caller \notin DOMAIN pihole_calls
    /\ LET cached_data == CacheGet(pihole_cache, get_cache_key(req.endpoint), now) IN
         IF cached_data # None
             THEN /\ pihole_result' =
                        [ caller |-> caller, request |-> req,
                          ended |-> "returned", data |-> Loads(cached_data),
                          api_requests |-> 0 ]
                  /\ UNCHANGED pihole_calls
             ELSE /\ pihole_calls' = (caller :> req) @@ pihole_calls
                  /\ pihole_result' = None
    /\ UNCHANGED <<agent, now, limiter, logger, pihole_cache>>

\* The API request of a miss ends: the answer is cached and returned, or
\* the failure of the request goes to the caller.
fetch_done(caller, outcome) ==
    /\ caller \in DOMAIN pihole_calls
    /\ LET req == pihole_calls[caller]
           data == make_request(req.params, now)
       IN
         IF outcome = "ok"
             THEN /\ pihole_cache' =
                        CacheSetex(pihole_cache, get_cache_key(req.endpoint),
                                   cache_ttl, Dumps(data), now)
                  /\ pihole_result' =
                        [ caller |-> caller, request |-> req,
                          ended |-> "returned", data |-> data,
                          api_requests |-> 1 ]
             ELSE /\ pihole_result' =
                        [ caller |-> caller, request |-> req,
                          ended |-> "raised", data |-> None,
                          api_requests |-> 1 ]
                  /\ UNCHANGED pihole_cache
    /\ pihole_calls' =
          [c \in DOMAIN pihole_calls \ {caller} |-> pihole_calls[c]]
    /\ UNCHANGED <<agent, now, limiter, logger>>

\* The clock of the service advances.
PiholeTick ==
    /\ now < MaxPiholeClock
    /\ now' = now + 1
    /\ UNCHANGED <<agent, others>>

NextPihole ==
    \/ \E caller \in Callers : \E req \in PiholeRequests :
          get_cached_or_fetch(caller, req)
    \/ \E caller \in Callers : \E outcome \in Outcomes :
          fetch_done(caller, outcome)
    \/ PiholeTick

PiholeSpec == Init /\ [][NextPihole]_vars

---------------------------------------------------------------------------
(* TestLogger: log_test *)

MaxLogCalls == 4

\* The test_data dicts log_test is called with: a successful GET, the same
\* request failing, a POST with a body, a dict that gives neither method
\* nor success, and one that names neither test_type nor test_name.
TestData ==
    { [ endpoint |-> "/api/test/ping", method |-> "GET",
        response_status |-> 200, test_type |-> "api", test_name |-> "ping",
        success |-> TRUE ],
      [ endpoint |-> "/api/test/ping", method |-> "GET",
        response_status |-> 500, test_type |-> "api", test_name |-> "ping",
        success |-> FALSE ],
      [ endpoint |-> "/api/test/ping", method |-> "POST",
        request_body |-> [target |-> "192.168.2.7"],
        response_status |-> 200, test_type |-> "api", test_name |-> "ping",
        success |-> TRUE ],
      [ endpoint |-> "/api/test/ping",
        response_status |-> 200, test_type |-> "api", test_name |-> "ping" ],
      [ endpoint |-> "/health", method |-> "GET",
        response_status |-> 200, success |-> TRUE ] }

\* Truth value of a request body: None and the empty dict are falsy.
Falsy(x) == x = None \/ x = EmptyDict

\* The text f"{body or ''}" puts into the hashed string: nothing for a
\* falsy body, the rendering of the body otherwise.
OrEmpty(x) == IF Falsy(x) THEN [empty |-> TRUE] ELSE [str |-> x]

\* The first 12 hex digits of the MD5 of "method:endpoint:body", taken to
\* differ for the different strings used here.
generate_test_id(endpoint, method, body) ==
    <<"md5", method, endpoint, OrEmpty(body)>>

\* The row log_test writes into test_logs.
LogRow(rowid, test_data) ==
    [ id        |-> rowid,
      test_id   |-> generate_test_id(test_data.endpoint,
                                     Get(test_data, "method", "GET"),
                                     Get(test_data, "request_body", None)),
      endpoint  |-> test_data.endpoint,
      method    |-> Get(test_data, "method", "GET"),
      request_body |->
          IF Falsy(Get(test_data, "request_body", None))
              THEN None ELSE [json |-> test_data.request_body],
      response_status |-> Get(test_data, "response_status", None),
      test_type |-> Get(test_data, "test_type", None),
      test_name |-> Get(test_data, "test_name", None),
      success   |-> Get(test_data, "success", TRUE) ]

\* INSERT OR REPLACE on the UNIQUE column test_id: rows with the same
\* test_id are deleted and the new row is inserted.
InsertOrReplace(rows, row) ==
    { r \in rows : r.test_id # row.test_id } \cup {row}

\* The key and the values of the row log_test offers to test_results.
ResultKey(test_data) ==
    << Get(test_data, "test_type", "general"),
       Get(test_data, "test_name", test_data.endpoint) >>

Excluded(test_data) ==
    [ last_result   |-> [json |-> Get(test_data, "response_body", None)],
      run_count     |-> 1,
      success_count |-> IF Get(test_data, "success", FALSE) THEN 1 ELSE 0 ]

\* INSERT ... ON CONFLICT(test_type, test_name) DO UPDATE.
\* (avg_response_time_ms and last_run, which no property here reads, are
\* left out of the rows.)
Upsert(results, key, excluded) ==
    IF key \in DOMAIN results
        THEN [ results EXCEPT ![key] =
                 [ last_result   |-> excluded.last_result,
                   run_count     |-> @.run_count + 1,
                   success_count |-> @.success_count
                        + (IF excluded.success_count > 0 THEN 1 ELSE 0) ] ]
        ELSE (key :> excluded) @@ results

\* log_test: both statements in one transaction.
log_test(test_data) ==
    /\ Len(log_calls) < MaxLogCalls
    /\ test_logs' =
          InsertOrReplace(test_logs, LogRow(Len(log_calls) + 1, test_data))
    /\ test_results' =
          Upsert(test_results, ResultKey(test_data), Excluded(test_data))
    /\ log_calls' = Append(log_calls, test_data)
    /\ UNCHANGED <<agent, now, limiter, pihole>>

NextLogger == \E test_data \in TestData : log_test(test_data)

LoggerSpec == Init /\ [][NextLogger]_vars

---------------------------------------------------------------------------
(* Properties *)

TerminalStatus == {"completed", "failed"}

RECURSIVE SumOver(_, _)
SumOver(f, S) ==
    IF S = {} THEN 0
    ELSE LET k == CHOOSE x \in S : TRUE IN f[k] + SumOver(f, S \ {k})

\* The error dict a handler returns when its outbound call raised.
CallErrorDict == [status |-> "error", message |-> ConnectError]

\* The outbound call made for task id has failed.
DownstreamFailed(id) ==
    /\ frames[id].pc \in {"returned", "done"}
    /\ LET r == frames[id].ret IN
         \/ r = CallErrorDict
         \/ "system" \in DOMAIN r /\ r.system = CallErrorDict

\* C1: no accepted submission of an enumerated type ends 'failed' because
\* the router did not recognise its type.
C1_EnumeratedTypesRoute ==
    \A id \in DOMAIN task_store :
        LET rec == task_store[id] IN
        rec.request.type \in TaskType =>
            ~( /\ rec.status = "failed"
               /\ "error" \in DOMAIN rec
               /\ rec.error = UnknownTaskType(rec.request.type) )

\* C2: a task whose downstream call failed ends 'failed' with the captured
\* message in its error field and counted in the failed metric; it is never
\* recorded as 'completed'.
C2_DownstreamFailureFails ==
    \A id \in DOMAIN task_store :
        (frames[id].pc = "done" /\ DownstreamFailed(id)) =>
            /\ task_store[id].status = "failed"
            /\ "error" \in DOMAIN task_store[id]
            /\ task_metrics.failed >= 1

\* C3: under FairSpec every record created by a submission eventually
\* reaches a terminal status, and once terminal it keeps that status (it
\* reaches a terminal state exactly once).
C3_EventuallyTerminalOnce ==
    /\ \A id \in Ids :
         (id \in DOMAIN task_store) ~>
             (id \in DOMAIN task_store
                /\ task_store[id].status \in TerminalStatus)
    /\ [][ \A id \in DOMAIN task_store :
             task_store[id].status \in TerminalStatus =>
                 task_store'[id].status = task_store[id].status ]_vars

\* C3 witness: a ledger whose records have all reached a terminal status,
\* one completed and one failed.
C3_Witness ==
    /\ Cardinality(DOMAIN task_store) >= 2
    /\ \A id \in DOMAIN task_store : task_store[id].status \in TerminalStatus
    /\ \E id \in DOMAIN task_store : task_store[id].status = "completed"
    /\ \E id \in DOMAIN task_store : task_store[id].status = "failed"

\* C4: the status of a record never regresses: every change of a record's
\* status is pending -> processing, processing -> completed or
\* processing -> failed, and no record disappears.
C4_StatusNeverRegresses ==
    [][ \A id \in DOMAIN task_store :
          /\ id \in DOMAIN task_store'
          /\ \/ task_store'[id].status = task_store[id].status
             \/ <<task_store[id].status, task_store'[id].status>> \in
                   { <<"pending", "processing">>,
                     <<"processing", "completed">>,
                     <<"processing", "failed">> } ]_vars

\* C4 witness: a completed record stays in the ledger while another record
\* is being processed.
C4_Witness ==
    \E i, j \in DOMAIN task_store :
        /\ task_store[i].status = "completed"
        /\ task_store[j].status = "processing"
        /\ frames[j].pc = "awaiting"

\* C5: result and error are never both set; result is set exactly when the
\* status is completed, error exactly when it is failed.
C5_ResultXorError ==
    \A id \in DOMAIN task_store :
        LET rec == task_store[id]
            hasResult == rec.result # None
            hasError  == "error" \in DOMAIN rec
        IN  /\ ~(hasResult /\ hasError)
            /\ hasResult <=> rec.status = "completed"
            /\ hasError <=> rec.status = "failed"

\* C5 witness: a failed record (error set, no result) beside a completed
\* one (result set, no error).
C5_Witness ==
    \E i, j \in DOMAIN task_store :
        /\ task_store[i].status = "failed"
        /\ "error" \in DOMAIN task_store[i]
        /\ task_store[j].status = "completed"
        /\ task_store[j].result # None

\* C6: completed + failed <= total in every reachable state.
C6_TerminalCountsWithinTotal ==
    task_metrics.completed + task_metrics.failed <= task_metrics.total

\* C6 witness: both counters are positive and together equal total.
C6_Witness ==
    /\ task_metrics.completed >= 1
    /\ task_metrics.failed >= 1
    /\ task_metrics.completed + task_metrics.failed = task_metrics.total

\* The step answers a POST with a TaskResponse (an accepted submission).
AcceptedSubmission ==
    /\ response'.endpoint = "create_task"
    /\ response'.status_code = HTTP_OK
    /\ response' # response

\* C7: an accepted submission adds one to total and to the per-type
\* counter of its type, no other step changes them, and total equals the
\* number of ledger entries and the sum of the per-type counters.
C7_TotalCountsSubmissions ==
    /\ [](/\ task_metrics.total = Cardinality(DOMAIN task_store)
          /\ task_metrics.total =
                SumOver(task_metrics.by_type, DOMAIN task_metrics.by_type))
    /\ [][ IF AcceptedSubmission
             THEN LET t == task_store'[response'.body.task_id].request.type IN
                  /\ task_metrics'.total = task_metrics.total + 1
                  /\ task_metrics'.by_type[t] =
                        Get(task_metrics.by_type, t, 0) + 1
                  /\ \A u \in DOMAIN task_metrics.by_type \ {t} :
                        task_metrics'.by_type[u] = task_metrics.by_type[u]
             ELSE /\ task_metrics'.total = task_metrics.total
                  /\ task_metrics'.by_type = task_metrics.by_type ]_vars

\* C7 witness: two submissions of the same type have been accepted.
C7_Witness ==
    /\ task_metrics.total = 2
    /\ \E t \in DOMAIN task_metrics.by_type : task_metrics.by_type[t] = 2

\* C8: a POST whose type is outside the enumeration is answered with a 4xx
\* and leaves the ledger, the metrics and the scheduled executions as they
\* were.
C8_UnknownTypeRejected ==
    [][ \A body \in Bodies :
          (body.type \notin TaskType /\ (create_task(body) \/ reject_task(body)))
          => /\ response'.status_code >= 400
             /\ response'.status_code < 500
             /\ UNCHANGED <<task_store, task_metrics, frames>> ]_vars

\* C8 witness: a rejection has just been answered while the ledger holds a
\* task.
C8_Witness ==
    /\ response = ValidationErrorResponse
    /\ task_metrics.total >= 1

\* C9: a submission stores its record as pending and says so in its
\* response; a get answered before the executor has started the task
\* returns status pending.
C9_PendingOnSubmit ==
    /\ [](/\ \A id \in DOMAIN frames :
               frames[id].pc = "scheduled" => task_store[id].status = "pending"
          /\ (response.endpoint = "get_task"
                /\ response.status_code = HTTP_OK
                /\ frames[response.body.id].pc = "scheduled")
             => response.body.status = "pending")
    /\ [][ AcceptedSubmission =>
             LET id == response'.body.task_id IN
             /\ id \notin DOMAIN task_store
             /\ response'.body.status = "pending"
             /\ task_store'[id].status = "pending"
             /\ TaskLookup(task_store', id).body.status = "pending" ]_vars

\* C9 witness: a get of a task that has not been started returned it.
C9_Witness ==
    /\ response.endpoint = "get_task"
    /\ response.status_code = HTTP_OK
    /\ frames[response.body.id].pc = "scheduled"

\* C10: a failing execution changes only its own record and the failed
\* counter, and every task whose handler returned ends completed.
C10_FailureIsolated ==
    /\ [][ \A id \in DOMAIN frames :
             process_task_fail(id) =>
                 /\ \A j \in DOMAIN task_store \ {id} :
                       task_store'[j] = task_store[j]
                 /\ task_metrics' =
                       [task_metrics EXCEPT !.failed = @ + 1] ]_vars
    /\ [](\A j \in DOMAIN frames :
             (frames[j].pc = "done" /\ frames[j].exc = None)
                 => task_store[j].status = "completed")

\* C10 witness: one task has failed and another, whose handler suspends on
\* an outbound call, has completed.
C10_Witness ==
    \E i, j \in DOMAIN task_store :
        /\ task_store[i].status = "failed"
        /\ task_store[j].status = "completed"
        /\ frames[j].task.type \in {"health_check", "worker_deploy"}

\* C11: the result of every completed task of the hybrid family (security
\* scan and backup alike) holds the system-metrics result under "system"
\* and the cloudflare result under "cloudflare".
C11_HybridResultHasBothParts ==
    \A id \in DOMAIN task_store :
        LET rec == task_store[id] IN
        (rec.request.type \in {"security_scan", "backup"}
            /\ rec.status = "completed")
        => /\ "system" \in DOMAIN rec.result
           /\ "cloudflare" \in DOMAIN rec.result

\* The handler the specification's routing table gives each task type.
ListedHandler ==
    [ t \in {"dns_update", "cache_purge", "ssl_check", "firewall_rule"}
        |-> "execute_cloudflare_task" ]
    @@ [ t \in {"health_check", "system_metric"} |-> "execute_pi_task" ]
    @@ [ t \in {"worker_deploy", "analytics_query"} |-> "execute_worker_task" ]
    @@ [ t \in {"security_scan", "backup"} |-> "execute_hybrid_task" ]

\* C12: every started task of a listed type has been handed to the handler
\* of the family listed for that type, and two started tasks of one type
\* have been handed to the same handler.
C12_RoutedToListedFamily ==
    /\ \A id \in DOMAIN frames :
         (frames[id].pc # "scheduled"
            /\ frames[id].task.type \in DOMAIN ListedHandler)
         => frames[id].handler = ListedHandler[frames[id].task.type]
    /\ \A i, j \in DOMAIN frames :
         (frames[i].pc # "scheduled" /\ frames[j].pc # "scheduled"
            /\ frames[i].task.type = frames[j].task.type)
         => frames[i].handler = frames[j].handler

\* C12 witness: two tasks of one type have both been routed, to the Pi
\* handler.
C12_Witness ==
    \E i, j \in DOMAIN frames :
        /\ i # j
        /\ frames[i].task.type = "health_check"
        /\ frames[j].task.type = "health_check"
        /\ frames[i].handler = "execute_pi_task"
        /\ frames[j].handler = "execute_pi_task"

\* C13: a get of an id in the ledger returns that id's current record, a
\* get of an id not in the ledger is answered 404, and a get of an id that
\* a submission has returned is never answered 404.
C13_GetReturnsRecordOrNotFound ==
    [][ \A id \in Ids :
          get_task(id) =>
              /\ IF id \in DOMAIN task_store
                   THEN /\ response'.status_code = HTTP_OK
                        /\ response'.body = task_store[id]
                   ELSE response'.status_code = HTTP_NOT_FOUND
              /\ id \in DOMAIN frames => response'.status_code = HTTP_OK ]_vars

\* C13 witness: a get has returned the record of a task whose handler is
\* suspended on its outbound call.
C13_Witness ==
    /\ response.endpoint = "get_task"
    /\ response.status_code = HTTP_OK
    /\ response.body.status = "processing"
    /\ response.body = task_store[response.body.id]

\* C14: a status response reports as active the number of ledger records
\* that are pending or processing when the response is produced, and the
\* values the completed and failed counters have then.
C14_StatusReportsLedger ==
    response.endpoint = "get_gateway_status" =>
        /\ response.body.active_tasks =
              Cardinality({ id \in DOMAIN task_store :
                              \/ task_store[id].status = "pending"
                              \/ task_store[id].status = "processing" })
        /\ response.body.completed_tasks = task_metrics.completed
        /\ response.body.failed_tasks = task_metrics.failed

\* C14 witness: a status response that counts a pending and a processing
\* record as active.
C14_Witness ==
    /\ response.endpoint = "get_gateway_status"
    /\ response.body.active_tasks = 2
    /\ \E id \in DOMAIN task_store : task_store[id].status = "processing"
    /\ \E id \in DOMAIN task_store : task_store[id].status = "pending"

\* C15: whatever the outcome of a probe, the status call goes on to the
\* next probe and is answered 200, with the entry of the probed service
\* "online" when the probe got a 200 and "offline" otherwise, and the entry
\* of the other service is the one its own probe gave.
C15_ProbeFailureIsOffline ==
    [][ \A outcome \in ProbeOutcomes :
          LET entry == IF outcome = "status_200" THEN "online" ELSE "offline"
          IN
          /\ status_probe_worker(outcome) =>
                /\ status_req'.services = [worker |-> entry]
                /\ status_req'.pc = "probe_pi"
          /\ status_probe_pi(outcome) =>
                /\ response'.endpoint = "get_gateway_status"
                /\ response'.status_code = HTTP_OK
                /\ response'.body.services =
                      [ worker |-> status_req.services.worker,
                        pi_executor |-> entry ] ]_vars

\* C15 witness: a status response after the worker's probe failed and the
\* Pi executor's succeeded.
C15_Witness ==
    /\ response.endpoint = "get_gateway_status"
    /\ response.body.services.worker = "offline"
    /\ response.body.services.pi_executor = "online"

\* C16: a submission is answered 'pending' before the handler of its task
\* has started, no step of an execution answers a submission, and a task
\* whose handler failed (the router raised, or the handler's outbound call
\* failed) ends with its record in the failed state, the failure in its
\* error field.
C16_HandlerFailureOnlyInRecord ==
    /\ [][ AcceptedSubmission =>
             LET id == response'.body.task_id IN
             /\ response'.body.status = "pending"
             /\ frames'[id].pc = "scheduled"
             /\ frames'[id].handler = "none" ]_vars
    /\ [][ \A id \in DOMAIN frames :
             process_task(id) => response'.endpoint # "create_task" ]_vars
    /\ [](\A id \in DOMAIN frames :
             (frames[id].pc = "done"
                /\ (frames[id].exc # None \/ DownstreamFailed(id)))
             => /\ task_store[id].status = "failed"
                /\ "error" \in DOMAIN task_store[id])

\* C17: under FairSpec every submitted dns_update task eventually ends
\* completed, and the data of a completed dns_update's result holds the
\* record and the content of the request's data, and its type, or "A" when
\* the request gave none.
C17_DnsUpdateEchoesPayload ==
    /\ \A id \in Ids :
         (id \in DOMAIN task_store
            /\ task_store[id].request.type = "dns_update")
         ~> (id \in DOMAIN task_store
               /\ task_store[id].status = "completed")
    /\ [](\A id \in DOMAIN task_store :
            LET rec == task_store[id] IN
            (rec.request.type = "dns_update" /\ rec.status = "completed") =>
                /\ rec.result.data.record = rec.request.data.record
                /\ rec.result.data.content = rec.request.data.content
                /\ rec.result.data.type =
                      IF "type" \in DOMAIN rec.request.data
                          THEN rec.request.data.type ELSE "A")

\* C17 witness: the scenario's dns_update has completed with its record
\* echoed, and so has one submitted without a record type.
C17_Witness ==
    \E i, j \in DOMAIN task_store :
        /\ task_store[i].status = "completed"
        /\ task_store[i].request.priority = "high"
        /\ task_store[i].result.data.record = "test.example.com"
        /\ task_store[j].status = "completed"
        /\ task_store[j].request.type = "dns_update"
        /\ "type" \notin DOMAIN task_store[j].request.data
        /\ task_store[j].result.data.type = "A"

\* C18: process_task is entered at most once for each task id: an id whose
\* execution is in progress or has ended has been started exactly once, and
\* an id that is scheduled or not yet issued has not been started.
C18_ExecutedAtMostOnce ==
    \A id \in Ids :
        /\ executions[id] <= 1
        /\ executions[id] =
              IF id \in DOMAIN frames /\ frames[id].pc # "scheduled"
                  THEN 1 ELSE 0

\* C18 witness: the execution of one task has ended in failure while that
\* of another is suspended on its outbound call.
C18_Witness ==
    \E i, j \in DOMAIN frames :
        /\ frames[i].pc = "done" /\ task_store[i].status = "failed"
        /\ executions[i] = 1
        /\ frames[j].pc = "awaiting"
        /\ executions[j] = 1

\* C19: get_task, the status call at each of its steps, the metrics query,
\* the capabilities query and the resumption of a handler leave the ledger
\* and the metrics as they are; starting an execution (which routes the
\* task) changes the ledger by the transition to 'processing' only and no
\* counter; and every step that changes the ledger or a counter is a
\* submission or a step of process_task that writes a status.
C19_OnlySubmitAndExecutorWrite ==
    [][ LET Ledger == <<task_store, task_metrics>>
            Query ==
                \/ \E id \in Ids : get_task(id)
                \/ get_gateway_status_start
                \/ \E outcome \in ProbeOutcomes : status_probe_worker(outcome)
                \/ \E outcome \in ProbeOutcomes : status_probe_pi(outcome)
                \/ get_metrics
                \/ get_capabilities
        IN
        /\ Query => Ledger' = Ledger
        /\ \A id \in DOMAIN frames :
             /\ (\E outcome \in Outcomes : handler_resume(id, outcome))
                   => Ledger' = Ledger
             /\ process_task_start(id) =>
                   /\ task_metrics' = task_metrics
                   /\ task_store' =
                         [task_store EXCEPT ![id].status = "processing",
                                            ![id].updated_at = now]
        /\ Ledger' # Ledger =>
             \/ AcceptedSubmission
             \/ \E id \in DOMAIN frames :
                  \/ process_task_start(id)
                  \/ process_task_complete(id)
                  \/ process_task_fail(id) ]_vars

\* C19 witness: the metrics query answered while the ledger holds an active
\* and a finished task.
C19_Witness ==
    /\ response.endpoint = "get_metrics"
    /\ response.body.active_tasks # {}
    /\ response.body.task_metrics.completed = 1
    /\ response.body.task_metrics = task_metrics

\* C20: a step that is an accepted submission adds exactly one record, under
\* the identifier it returns, which was not in the ledger before; every
\* other step leaves the set of ledger ids as it is; and no step removes a
\* record or changes the id or the request of one.
C20_LedgerOnlyGrows ==
    [][ /\ DOMAIN task_store \subseteq DOMAIN task_store'
        /\ \A id \in DOMAIN task_store :
             /\ task_store'[id].id = id
             /\ task_store'[id].request = task_store[id].request
             /\ TaskLookup(task_store', id).status_code = HTTP_OK
        /\ IF AcceptedSubmission
             THEN LET id == response'.body.task_id IN
                  /\ id \notin DOMAIN task_store
                  /\ DOMAIN task_store' = DOMAIN task_store \cup {id}
                  /\ task_store'[id].id = id
             ELSE DOMAIN task_store' = DOMAIN task_store ]_vars

\* C20 witness: the ledger holds the records of two submissions, the first
\* of which has since been executed to its end.
C20_Witness ==
    /\ response.endpoint = "create_task"
    /\ response.status_code = HTTP_OK
    /\ Cardinality(DOMAIN task_store) = 2
    /\ \E id \in DOMAIN task_store \ {response.body.task_id} :
         /\ task_store[id].status \in TerminalStatus
         /\ task_store[id].id = id

\* C21: a record that is 'processing' changes status only in the step of
\* its own process_task that records the handler's return or failure; while
\* its handler is suspended the record stays 'processing' at every step, the
\* passing of time beyond the request's timeout included.
C21_NoCancellationNoTimeout ==
    [][ \A id \in DOMAIN task_store :
          /\ (task_store[id].status = "processing"
                /\ task_store'[id].status # "processing")
             => (process_task_complete(id) \/ process_task_fail(id))
          /\ frames[id].pc = "awaiting"
             => /\ task_store[id].status = "processing"
                /\ task_store'[id] = task_store[id]
          /\ Tick => task_store'[id] = task_store[id] ]_vars

\* C21 witness: a task is still processing, its handler suspended, after
\* more time than its timeout has passed since its creation.
C21_Witness ==
    \E id \in DOMAIN task_store :
        /\ task_store[id].status = "processing"
        /\ frames[id].pc = "awaiting"
        /\ now > task_store[id].created_at + task_store[id].request.timeout

C23_TimestampsFollowClock ==
    /\ [][ /\ now' >= now
           /\ \A id \in DOMAIN task_store :
                /\ task_store'[id].created_at = task_store[id].created_at
                /\ task_store'[id].updated_at >= task_store[id].updated_at
                /\ task_store'[id].status # task_store[id].status
                   => task_store'[id].updated_at = now
           /\ \A id \in DOMAIN task_store' \ DOMAIN task_store :
                /\ task_store'[id].created_at = now
                /\ task_store'[id].updated_at = now ]_vars
    /\ [](\A id \in DOMAIN task_store :
            /\ task_store[id].created_at <= task_store[id].updated_at
            /\ task_store[id].updated_at <= now)

\* C23 witness: a record created at one time, picked up later and completed
\* later still, next to one that failed at the time it was created.
C23_Witness ==
    \E i, j \in DOMAIN task_store :
        /\ task_store[i].status = "completed"
        /\ task_store[i].created_at < MaxClock - 1
        /\ task_store[i].updated_at = MaxClock
        /\ task_store[j].status = "failed"
        /\ task_store[j].updated_at = task_store[j].created_at
        /\ task_store[j].created_at > task_store[i].created_at

\* The terminal status a task reaches when it is the only one submitted.
TerminalAlone(task) ==
    IF task.type \in { "dns_update", "cache_purge", "ssl_check",
                       "firewall_rule", "system_metric", "health_check",
                       "worker_deploy", "analytics_query", "security_scan",
                       "backup" }
        THEN "completed" ELSE "failed"

\* C24: whenever the event loop is free, every unfinished task can take its
\* next step, whichever was submitted first, so that of two tasks in flight
\* either can reach its terminal state first; and whatever the order, a
\* task ends in the terminal status it reaches when run alone.
C24_CompletionOrderFree ==
    /\ \A id \in DOMAIN frames :
         (running = Idle /\ frames[id].pc \in {"scheduled", "awaiting"})
             => ENABLED process_task(id)
    /\ \A id \in DOMAIN task_store :
         task_store[id].status \in TerminalStatus
             => task_store[id].status = TerminalAlone(task_store[id].request)

\* C24 witness: of two tasks submitted one after the other, the second has
\* completed while the first is still suspended on its call and can go on.
C24_Witness ==
    \E a, b \in DOMAIN task_store :
        /\ task_store[a].created_at < task_store[b].created_at
        /\ task_store[b].status = "completed"
        /\ frames[a].pc = "awaiting"
        /\ ENABLED process_task(a)

\* C25: while the system-metrics call of a hybrid task is outstanding the
\* task has no result, in particular no cloudflare part; the step in which
\* that call ends, with a body or with a failure, puts what the call gave
\* under "system" and the firewall listing under "cloudflare".
C25_HybridSequential ==
    /\ [](\A id \in DOMAIN frames :
            (frames[id].handler = "execute_hybrid_task"
               /\ frames[id].pc = "awaiting")
            => /\ frames[id].call.service = "pi_executor"
               /\ frames[id].call.path = "/metrics"
               /\ frames[id].ret = None
               /\ task_store[id].result = None)
    /\ [][ \A id \in DOMAIN frames : \A outcome \in Outcomes :
             (frames[id].handler = "execute_hybrid_task"
                /\ handler_resume(id, outcome))
             => /\ DOMAIN frames'[id].ret = {"system", "cloudflare"}
                /\ frames'[id].ret.system =
                      IF outcome = "raised"
                          THEN [status |-> "error", message |-> ConnectError]
                          ELSE ResponseJson(frames[id].call)
                /\ frames'[id].ret.cloudflare.service = "cloudflare"
                /\ frames'[id].ret.cloudflare.task_type = "firewall_rule"
                /\ frames'[id].ret.cloudflare.status = "success" ]_vars

\* C25 witness: a security scan whose system-metrics call failed has
\* completed with the failure under "system" and the firewall listing
\* under "cloudflare".
C25_Witness ==
    \E id \in DOMAIN task_store :
        /\ task_store[id].request.type = "security_scan"
        /\ task_store[id].status = "completed"
        /\ task_store[id].result.system.status = "error"
        /\ task_store[id].result.cloudflare.status = "success"

\* The number of records of the ledger with the given status.
CountStatus(store, status) ==
    Cardinality({ id \in DOMAIN store : store[id].status = status })

\* C26: in every state the completed counter is the number of 'completed'
\* records and the failed counter the number of 'failed' records, the
\* pending and processing records with these two make up total, and a
\* status response gives three figures that add up to total.
C26_CountersAgreeWithLedger ==
    /\ task_metrics.completed = CountStatus(task_store, "completed")
    /\ task_metrics.failed = CountStatus(task_store, "failed")
    /\ CountStatus(task_store, "pending")
          + CountStatus(task_store, "processing")
          + task_metrics.completed + task_metrics.failed
       = task_metrics.total
    /\ response.endpoint = "get_gateway_status"
       => response.body.active_tasks + response.body.completed_tasks
             + response.body.failed_tasks = task_metrics.total

\* C26 witness: a status response given while one task is being processed
\* and another has completed.
C26_Witness ==
    /\ response.endpoint = "get_gateway_status"
    /\ response.body.active_tasks = 1
    /\ response.body.completed_tasks = 1
    /\ CountStatus(task_store, "processing") = 1
    /\ task_metrics.total = 2

\* The handler of each owning service the catalog names.
ServiceHandler ==
    [ cloudflare  |-> "execute_cloudflare_task",
      pi_executor |-> "execute_pi_task",
      worker      |-> "execute_worker_task",
      hybrid      |-> "execute_hybrid_task" ]

\* C27: every task whose type the capabilities catalog lists is, once
\* started, in the hands of the handler of the service the catalog gives for
\* its type (get_task_service), and its routing has not raised.
C27_CatalogAgreesWithRouter ==
    \A id \in DOMAIN frames :
        LET t == frames[id].task.type IN
        (frames[id].pc # "scheduled"
           /\ \E entry \in CapabilitiesBody.task_types : entry.type = t)
        => /\ frames[id].handler = ServiceHandler[get_task_service[t]]
           /\ frames[id].exc = None

\* C28: a rate_limit call whose INCR gave a count above `calls` ends by
\* raising HTTP 429 to its caller, and one whose count is at most `calls`
\* returns; and the key of a host expires `period` seconds after the first
\* request of the period.
C28_OverLimitRejected ==
    /\ [](rate_result # None =>
            ("current" \in DOMAIN rate_result
               /\ rate_result.current > rate_result.calls)
            <=> (rate_result.ended = "raised"
                   /\ rate_result.raised.status_code = HTTP_TOO_MANY_REQUESTS))
    /\ [][ \A host \in Hosts :
             (rate_limit_check(host) /\ rate_calls[host].current = 1)
             => rate_keys'[host].expire_at = now + rate_calls[host].period ]_vars

\* C29: what _get_cached_or_fetch returns is the answer to the parameters
\* it was called with, fetched by this call or fetched less than the TTL
\* ago; a hit makes no API request; a miss makes one and stores its answer
\* under the endpoint's key for cache_ttl seconds.
C29_CacheReturnsOwnParameters ==
    /\ [][ (pihole_result' # pihole_result /\ pihole_result' # None
              /\ pihole_result'.ended = "returned")
           => /\ pihole_result'.data.params = pihole_result'.request.params
              /\ pihole_result'.data.as_of > now - cache_ttl ]_vars
    /\ [][ \A caller \in Callers : \A req \in PiholeRequests :
             (get_cached_or_fetch(caller, req) /\ pihole_result' # None)
             => /\ pihole_result'.api_requests = 0
                /\ pihole_calls' = pihole_calls
                /\ Dumps(pihole_result'.data) =
                      pihole_cache[get_cache_key(req.endpoint)].value ]_vars
    /\ [][ \A caller \in Callers :
             fetch_done(caller, "ok") =>
                 LET key == get_cache_key(pihole_calls[caller].endpoint) IN
                 /\ pihole_result'.api_requests = 1
                 /\ pihole_cache'[key].value = Dumps(pihole_result'.data)
                 /\ pihole_cache'[key].expire_at = now + cache_ttl ]_vars

\* The log_test calls so far for a (test_type, test_name) pair.
CallsFor(key) ==
    { i \in 1..Len(log_calls) : ResultKey(log_calls[i]) = key }

====
